---- MODULE Spec2Model ----
(***************************************************************************)
(* Model of the AI voice detection service: the FastAPI handlers of        *)
(* main.py (/detect on the event loop, /predict on worker threads) and the *)
(* prediction core of model.py (initialize_model, train_model, load_model, *)
(* extract_features, predict_voice) working on the two persisted pickle    *)
(* files and on the temp_audio upload directory.                           *)
(***************************************************************************)
EXTENDS Integers, Sequences, FiniteSets, TLC

(***************************************************************************)
(* Bounds of the model.                                                    *)
(***************************************************************************)
\* number of requests the server works on at the same time; a slot is free
\* again once its response is delivered
MaxInFlight == 2

Reqs == 1..MaxInFlight

\* train_model is let to fail only while no more fits than this have started
MaxFits == 2

(***************************************************************************)
(* Program constants.                                                      *)
(***************************************************************************)
API_KEY == "teamAI_123"
SUPPORTED_LANGUAGES == {"tamil", "english", "hindi", "malayalam", "telugu"}
\* the Header(None) default of /detect and a request without the header
NoHeader == "<None>"
MinBytes == 1024
MaxBytes == 25 * 1024 * 1024
\* n_mfcc of librosa.feature.mfcc
N_MFCC == 20
\* n_samples and n_features of create_synthetic_training_data; the function
\* never reads n_features, it is the width train_model documents
N_SAMPLES == 100
N_FEATURES == 48

\* np.hstack of parts <<name, width>>: the values one after the other, each
\* named by the part it comes from
RECURSIVE hstack(_)
hstack(parts) ==
  IF parts = <<>> THEN <<>>
  ELSE [k \in 1..parts[1][2] |-> parts[1][1]] \o hstack(Tail(parts))

\* the parts extract_features stacks, in the order of its np.hstack
FeatureParts ==
  << <<"mfcc_mean", N_MFCC>>, <<"mfcc_std", N_MFCC>>,
     <<"spec_centroid_mean", 1>>, <<"spec_centroid_std", 1>>,
     <<"spec_rolloff_mean", 1>>, <<"spec_rolloff_std", 1>>,
     <<"spec_bandwidth_mean", 1>>, <<"zero_crossing_rate_mean", 1>>,
     <<"zero_crossing_rate_std", 1>>, <<"chroma_mean", 1>> >>

\* length of the vector extract_features builds with np.hstack
FeatureLen == Len(hstack(FeatureParts))
\* class probabilities are counted in units of 1/ProbUnit
ProbUnit == 10000

(***************************************************************************)
(* Pure functions of main.py.                                              *)
(***************************************************************************)
\* str.lower() on the language strings the clients send
Lower(s) ==
  CASE s = "Hindi"   -> "hindi"
    [] s = "ENGLISH" -> "english"
    [] OTHER         -> s

\* a slip: any key that is sent is accepted
validate_api_keyPresent(api_key) ==
  IF api_key = NoHeader \/ api_key = "" THEN FALSE ELSE TRUE

validate_api_key(api_key) ==
  IF api_key = NoHeader \/ api_key = "" THEN FALSE ELSE api_key = API_KEY

validate_language(language) == Lower(language) \in SUPPORTED_LANGUAGES

\* base64.b64decode on a string of d alphabet characters followed by p '='
\* characters: the decoded length, or -1 for binascii.Error
B64Decode(d, p) ==
  CASE d % 4 = 0            -> (d \div 4) * 3
    [] d % 4 = 1            -> -1
    [] d % 4 = 2 /\ p >= 2  -> (d \div 4) * 3 + 1
    [] d % 4 = 3 /\ p >= 1  -> (d \div 4) * 3 + 2
    [] OTHER                -> -1

\* a slip: every upload is written under the same name
Uuid4Fixed(r) == 1

\* filename = f"{uuid.uuid4()}.{ext}": a name no other request gets
Uuid4(r) == r

(***************************************************************************)
(* The requests the clients send.  A request states its endpoint, the      *)
(* x-api-key header, the declared language and format, the audio (for      *)
(* /detect a base64 string of d alphabet characters and p '=' characters,  *)
(* for /predict an upload of nbytes bytes), whether librosa can decode the *)
(* audio (kind) and the share of the forest's votes the audio gets for     *)
(* class 1 (score, in units of 1/ProbUnit).                                *)
(***************************************************************************)
Scores == {0, 4996, 5000, 10000}

\* <<d, p>>: empty, bad padding, 500 B, 1023 B, 25 MiB, 25 MiB + 1, 26 MiB
B64Shapes ==
  { <<0, 0>>, <<1366, 0>>, <<667, 1>>, <<1364, 0>>,
    <<34952534, 2>>, <<34952535, 1>>, <<36350635, 1>> }

DetectBase ==
  [endpoint |-> "detect", key |-> API_KEY, language |-> "english",
   audio_format |-> "wav", d |-> 1366, p |-> 2, nbytes |-> 0,
   kind |-> "ok", score |-> 8766]

DetectInputs ==
  {DetectBase}
    \cup {[DetectBase EXCEPT !.key = k] : k \in {"wrong_key", NoHeader, ""}}
    \cup {[DetectBase EXCEPT !.language = l] : l \in {"Hindi", "klingon"}}
    \cup {[DetectBase EXCEPT !.audio_format = "exe"]}
    \cup {[DetectBase EXCEPT !.d = x[1], !.p = x[2]] : x \in B64Shapes}
    \cup {[DetectBase EXCEPT !.kind = "corrupt"]}
    \cup {[DetectBase EXCEPT !.score = s] : s \in Scores}
    \cup {[DetectBase EXCEPT !.language = "klingon", !.d = 667, !.p = 1],
          [DetectBase EXCEPT !.key = "wrong_key", !.language = "klingon"]}

PredictBase ==
  [endpoint |-> "predict", key |-> API_KEY, language |-> "",
   audio_format |-> "wav", d |-> 0, p |-> 0, nbytes |-> 2048,
   kind |-> "ok", score |-> 8766]

PredictInputs ==
  {PredictBase}
    \cup {[PredictBase EXCEPT !.key = k] : k \in {"wrong_key", NoHeader}}
    \cup {[PredictBase EXCEPT !.nbytes = n] : n \in {500, 26 * 1024 * 1024}}
    \cup {[PredictBase EXCEPT !.kind = "corrupt"]}
    \cup {[PredictBase EXCEPT !.score = 5000]}

Inputs == DetectInputs \cup PredictInputs

(***************************************************************************)
(* State.                                                                  *)
(***************************************************************************)
VARIABLES
  req,         \* req[r]: the request in slot r, or NoReq before it arrives
  pc,          \* pc[r]: where the handler of request r stands
  loc,         \* loc[r]: the local variables of the handler and of predict_voice
  resp,        \* resp[r]: the response sent for request r, or NoResp
  log,         \* log[r]: the stages request r has passed, in order
  modelFile,   \* the file at MODEL_PATH
  scalerFile,  \* the file at SCALER_PATH
  fitCount,    \* number of train_model fits executed so far
  tempFiles,   \* names of the files in UPLOAD_DIR
  history      \* the last successful request a client remembers, see SpecHist

vars ==
  <<req, pc, loc, resp, log, modelFile, scalerFile, fitCount, tempFiles,
    history>>

NoReq == [endpoint |-> "none"]
NoLabel == "<none>"
NoConf == -1
\* detail is the fixed part of an error's detail, cause the str(e) it embeds
NoResp == [status |-> 0, classification |-> NoLabel, confidence |-> NoConf,
           language |-> "", detail |-> "", cause |-> ""]
NoFeatures == [len |-> 0, layout |-> <<>>, score |-> 0]

\* a row of X_train for the AI voices and for the human voices: both loops
\* stack mfcc_mean (20), mfcc_std (20), spec_features (7) and zcr_std (1)
SyntheticParts ==
  << <<"mfcc_mean", 20>>, <<"mfcc_std", 20>>, <<"spec_features", 7>>,
     <<"zcr_std", 1>> >>

\* a slip: one spectral feature fewer is drawn for every row
create_synthetic_training_dataNarrow ==
  LET parts == [SyntheticParts EXCEPT ![3] = <<"spec_features", 6>>]
      ai == [k \in 1..(N_SAMPLES \div 2) |-> [x |-> hstack(parts), y |-> 1]]
      human == [k \in 1..(N_SAMPLES \div 2) |-> [x |-> hstack(parts), y |-> 0]]
  IN ai \o human

\* create_synthetic_training_data: the rows of (X_train, y_train), first
\* n_samples // 2 rows labelled 1, then n_samples // 2 rows labelled 0
create_synthetic_training_data ==
  LET ai == [k \in 1..(N_SAMPLES \div 2) |->
               [x |-> hstack(SyntheticParts), y |-> 1]]
      human == [k \in 1..(N_SAMPLES \div 2) |->
                  [x |-> hstack(SyntheticParts), y |-> 0]]
  IN ai \o human

\* what initialize_model holds in X_train, y_train: the number of rows, the
\* widths of the rows and the number of rows of each label
NoTrain == [rows |-> 0, widths |-> {}, ones |-> 0, zeros |-> 0]

Shape(data) ==
  [rows |-> Len(data),
   widths |-> {Len(data[k].x) : k \in DOMAIN data},
   ones |-> Cardinality({k \in DOMAIN data : data[k].y = 1}),
   zeros |-> Cardinality({k \in DOMAIN data : data[k].y = 0})]

\* the objects train_model fits and pickles are named by the fit they come
\* from and carry n_features_in_, the width of the rows they were fitted on.
\* Every bootstrap fit gives the same objects: create_synthetic_training_data
\* seeds numpy with 42 and the forest has random_state=42.
NoFit == [name |-> "", n_features_in |-> 0]

\* scaler.fit_transform(X_train) and model.fit(X_train_scaled, y_train)
Fit(data, name) ==
  [name |-> name,
   n_features_in |-> CHOOSE w \in Shape(data).widths : TRUE]

EarlierFit == [name |-> "fitted by an earlier run", n_features_in |-> N_FEATURES]
SyntheticFit == Fit(create_synthetic_training_data, "fitted on the synthetic data")

NoLoc ==
  [nbytes |-> 0, file_path |-> 0, train |-> NoTrain, fit |-> NoFit,
   model |-> NoFit, scaler |-> NoFit,
   features |-> NoFeatures, label |-> NoLabel, confidence |-> NoConf,
   err |-> ""]

\* a persisted pickle file: absent, partial (opened 'wb' and not yet fully
\* dumped) or complete; fit names the fit whose object it holds, writers
\* the requests that hold it open for writing, in the order they opened it
AbsentFile == [st |-> "absent", fit |-> NoFit, writers |-> <<>>]
PersistedFile == [st |-> "complete", fit |-> EarlierFit, writers |-> <<>>]

\* train_model takes any X_train: a file left by a fit on rows of another
\* width than the 48 of extract_features
MismatchedFit ==
  [name |-> "fitted by an earlier run on rows of another width",
   n_features_in |-> 40]
MismatchedFile == [st |-> "complete", fit |-> MismatchedFit, writers |-> <<>>]

NoHistory == [req |-> NoReq, loc |-> NoLoc, resp |-> NoResp]

\* the server starts with the files m and s at MODEL_PATH and SCALER_PATH
Start(m, s) ==
  /\ req = [r \in Reqs |-> NoReq]
  /\ pc = [r \in Reqs |-> "idle"]
  /\ loc = [r \in Reqs |-> NoLoc]
  /\ resp = [r \in Reqs |-> NoResp]
  /\ log = [r \in Reqs |-> <<>>]
  /\ modelFile = m /\ scalerFile = s
  /\ fitCount = 0
  /\ tempFiles = {}
  /\ history = NoHistory

\* a fresh deployment, or a restart that finds the files of an earlier run
Init == \E f \in {AbsentFile, PersistedFile} : Start(f, f)

\* a restart that finds any of the two files, or none: initialize_model
\* asks for each of them
InitRestart == \E m, s \in {AbsentFile, PersistedFile} : Start(m, s)

\* a fresh deployment, or a restart that finds files fitted on rows of
\* another width
InitMismatch == \E f \in {AbsentFile, MismatchedFile} : Start(f, f)

(***************************************************************************)
(* model.py: features, scaling and classification.                         *)
(***************************************************************************)
\* a slip: a failed extraction returns a vector of zeros
extract_featuresZeroPadded(i) ==
  [len |-> Len(hstack(FeatureParts)), layout |-> hstack(FeatureParts),
   score |-> IF i.kind = "ok" THEN i.score ELSE 0]

\* extract_features: the 48 values of np.hstack, NoFeatures when librosa
\* raises ("Feature extraction failed")
extract_features(i) ==
  IF i.kind = "ok"
    THEN [len |-> Len(hstack(FeatureParts)), layout |-> hstack(FeatureParts),
          score |-> i.score]
    ELSE NoFeatures

\* scaler.transform raises ValueError unless the vector has the dimension
\* the scaler was fitted on
TransformOk(features, scaler) == features.len = scaler.n_features_in

\* model.predict and model.predict_proba raise ValueError likewise
PredictOk(features, model) == features.len = model.n_features_in

\* a slip: the prediction reads what another request has left in the upload
\* directory, and the two classes come out exchanged
predict_probaShared(features) ==
  IF Cardinality(tempFiles) > 1
    THEN <<features.score, ProbUnit - features.score>>
    ELSE <<ProbUnit - features.score, features.score>>

\* model.predict_proba(features_scaled)[0]: <<P(class 0), P(class 1)>>
predict_proba(features) == <<ProbUnit - features.score, features.score>>

\* model.predict(features_scaled)[0]: classes_[argmax], and np.argmax takes
\* the first of equal maxima
predict(features) ==
  LET pr == predict_proba(features) IN IF pr[2] > pr[1] THEN 1 ELSE 0

\* a slip: the smaller probability is taken
ConfidenceMin(probabilities) ==
  IF probabilities[1] <= probabilities[2] THEN probabilities[1]
  ELSE probabilities[2]

\* confidence = float(max(probabilities))
Confidence(probabilities) ==
  IF probabilities[1] >= probabilities[2] THEN probabilities[1]
  ELSE probabilities[2]

\* a slip: the two labels are exchanged
LabelSwapped(prediction) == IF prediction = 1 THEN "HUMAN" ELSE "AI_GENERATED"

\* if prediction == 1: label = "AI_GENERATED" else: label = "HUMAN"
Label(prediction) == IF prediction = 1 THEN "AI_GENERATED" ELSE "HUMAN"

\* a slip: a failed extraction is not raised, and a vector of zeros is
\* scaled and classified
ClassifyZeroVector(i, model, scaler) ==
  LET features == [len |-> FeatureLen, layout |-> hstack(FeatureParts),
                   score |-> IF i.kind = "ok" THEN i.score ELSE 0] IN
  [stages |-> IF i.kind = "ok"
                THEN <<"FEATURES_EXTRACTED", "NORMALIZED", "CLASSIFIED">>
                ELSE <<"NORMALIZED", "CLASSIFIED">>,
   features |-> features, label |-> Label(predict(features)),
   confidence |-> Confidence(predict_proba(features)), err |-> ""]

\* predict_voice from extract_features to its return: the stages reached
\* and the outcome
Classify(i, model, scaler) ==
  LET features == extract_features(i) IN
  IF features = NoFeatures
    THEN [stages |-> <<>>, features |-> features, label |-> NoLabel,
          confidence |-> NoConf, err |-> "Feature extraction failed"]
  ELSE IF ~TransformOk(features, scaler)
    THEN [stages |-> <<"FEATURES_EXTRACTED">>, features |-> features,
          label |-> NoLabel, confidence |-> NoConf, err |-> "transform failed"]
  ELSE IF ~PredictOk(features, model)
    THEN [stages |-> <<"FEATURES_EXTRACTED", "NORMALIZED">>,
          features |-> features, label |-> NoLabel, confidence |-> NoConf,
          err |-> "predict failed"]
  ELSE [stages |-> <<"FEATURES_EXTRACTED", "NORMALIZED", "CLASSIFIED">>,
        features |-> features, label |-> Label(predict(features)),
        confidence |-> Confidence(predict_proba(features)), err |-> ""]

(***************************************************************************)
(* main.py: responses and the end of the handlers.                         *)
(***************************************************************************)
\* http_exception_handler: {"status": "error", "detail": exc.detail}
HTTPError(status, detail, cause) ==
  [status |-> status, classification |-> NoLabel, confidence |-> NoConf,
   language |-> "", detail |-> detail, cause |-> cause]

\* a slip: the language is echoed as it was sent
DetectionResponseVerbatim(label, confidence, language) ==
  [status |-> 200, classification |-> label, confidence |-> confidence,
   language |-> language, detail |-> "success", cause |-> ""]

\* DetectionResponse(status="success", classification=label, ...)
DetectionResponse(label, confidence, language) ==
  [status |-> 200, classification |-> label, confidence |-> confidence,
   language |-> Lower(language), detail |-> "success", cause |-> ""]

\* a slip: the confidence is cut after 3 decimal places
Round3Floor(c) == (c \div 10) * 10

\* round(confidence, 3), in units of 1/ProbUnit
Round3(c) == ((c + 5) \div 10) * 10

\* {"label": label, "confidence": round(confidence, 3)}
PredictResponse(label, confidence) ==
  [status |-> 200, classification |-> label, confidence |-> Round3(confidence),
   language |-> "", detail |-> "", cause |-> ""]

\* a slip: a failed prediction is answered with a default label
DetectOutcomeDefault(i, l) ==
  IF l.err = "" THEN DetectionResponse(l.label, l.confidence, i.language)
  ELSE DetectionResponse("HUMAN", ProbUnit \div 2, i.language)

\* a slip: for languages other than English AI_GENERATED is reported only
\* from a confidence of 0.9 on
DetectOutcomeByLanguage(i, l) ==
  IF l.err = ""
    THEN DetectionResponse(
           IF Lower(i.language) # "english" /\ 10 * l.confidence < 9 * ProbUnit
             THEN "HUMAN" ELSE l.label,
           l.confidence, i.language)
  ELSE IF l.err = "write" THEN HTTPError(500, "Internal server error", l.err)
  ELSE HTTPError(422, "Audio processing failed", l.err)

\* a slip: "except HTTPException: raise" is missing, and the 422 of the
\* inner except is caught by "except Exception" and becomes a 500
DetectOutcomeAll500(i, l) ==
  IF l.err = "" THEN DetectionResponse(l.label, l.confidence, i.language)
  ELSE HTTPError(500, "Internal server error", l.err)

\* /detect from the return of predict_voice (or the failed write): the
\* response, the 422 of the inner except, the 500 of the outer one
DetectOutcome(i, l) ==
  IF l.err = "" THEN DetectionResponse(l.label, l.confidence, i.language)
  ELSE IF l.err = "write" THEN HTTPError(500, "Internal server error", l.err)
  ELSE HTTPError(422, "Audio processing failed", l.err)

\* /predict: the label and the rounded confidence, or the 500 of its except
PredictOutcome(i, l) ==
  IF l.err = "" THEN PredictResponse(l.label, l.confidence)
  ELSE HTTPError(500, "Error processing file", l.err)

\* a slip: the temp file is left behind
cleanup_fileSkipped(files, path) == files

\* cleanup_file, and the os.remove of /predict: the file goes if it is there
cleanup_file(files, path) == files \ {path}

\* the handler of request i in slot r ends with the locals l, having passed
\* the stages st: it returns or raises, and its cleanup runs on the upload
\* directory files
Return(r, i, l, st, files) ==
  /\ pc' = [pc EXCEPT ![r] = "done"]
  /\ loc' = [loc EXCEPT ![r] = l]
  /\ resp' = [resp EXCEPT ![r] =
       IF i.endpoint = "detect" THEN DetectOutcome(i, l)
       ELSE PredictOutcome(i, l)]
  /\ log' = [log EXCEPT ![r] =
       IF l.err = "" THEN Append(st, "RESULT_BUILT") ELSE st]
  /\ tempFiles' = cleanup_file(files, l.file_path)

\* a check before the temp file fails: the HTTPException is the response
Reject(r, c) ==
  /\ pc' = [pc EXCEPT ![r] = "done"]
  /\ resp' = [resp EXCEPT ![r] = HTTPError(c.status, c.detail, "")]
  /\ log' = [log EXCEPT ![r] = <<"RECEIVED">>]
  /\ UNCHANGED <<loc, tempFiles>>

(***************************************************************************)
(* Scheduling.  /predict is a plain def: FastAPI runs it on a worker       *)
(* thread, so its steps interleave with every other request.  /detect is   *)
(* an async def that never awaits: it runs on the event loop from start to *)
(* end, so no two /detect requests are in progress together, while worker  *)
(* threads keep running beside it.  Steps that touch nothing shared (the   *)
(* checks, the request's own temp file, the computation on the loaded      *)
(* model) are taken together with the step that precedes them.             *)
(***************************************************************************)
InFlight == {r \in Reqs : pc[r] # "idle"}

\* a finished response is delivered before the server takes another step
Delivered == \A r \in Reqs : pc[r] # "done"

At(r, where) == pc[r] = where /\ Delivered

\* a request takes the lowest free slot; beside the two plain requests at
\* most one request in flight is a variant
CanStart(r, i) ==
  /\ At(r, "idle")
  /\ \A q \in 1..(r - 1) : pc[q] # "idle"
  /\ i \in {DetectBase, PredictBase}
       \/ \A q \in InFlight : req[q] \in {DetectBase, PredictBase}

(***************************************************************************)
(* Both handlers: the temp file is opened under a fresh name and the audio *)
(* written to it.  The open or the write may fail (OSError); the handler   *)
(* then goes straight to its except clauses.                               *)
(***************************************************************************)
WriteOutcomes == {"ok", "open fails", "write fails"}

\* the handler's locals after the with open(file_path, "wb") block
WriteTemp(r, nbytes, outcome) ==
  [NoLoc EXCEPT !.nbytes = nbytes, !.file_path = Uuid4(r),
                !.err = IF outcome = "ok" THEN "" ELSE "write"]

\* the upload directory after it: open creates the file
TempAfterWrite(r, outcome) ==
  IF outcome = "open fails" THEN tempFiles ELSE tempFiles \cup {Uuid4(r)}

\* the handler from the temp file on: into predict_voice, or out
Stage(r, i, nbytes, st) ==
  \E outcome \in WriteOutcomes :
    IF outcome = "ok"
      THEN /\ pc' = [pc EXCEPT ![r] = "initialize"]
           /\ loc' = [loc EXCEPT ![r] = WriteTemp(r, nbytes, outcome)]
           /\ log' = [log EXCEPT ![r] = Append(st, "TEMP_WRITTEN")]
           /\ tempFiles' = TempAfterWrite(r, outcome)
           /\ resp' = resp
      ELSE Return(r, i, WriteTemp(r, nbytes, outcome), st,
                  TempAfterWrite(r, outcome))

(***************************************************************************)
(* /detect: the checks of lines 642-680, in order, and the temp file.      *)
(***************************************************************************)
\* a slip: the lower size bound is not checked
DetectCheckNoMin(i) ==
  LET n == B64Decode(i.d, i.p) IN
  IF ~validate_api_key(i.key)
    THEN [status |-> 401, detail |-> "Invalid or missing API key"]
  ELSE IF ~validate_language(i.language)
    THEN [status |-> 400, detail |-> "Unsupported language"]
  ELSE IF i.d + i.p = 0
    THEN [status |-> 400, detail |-> "audio_base64 cannot be empty"]
  ELSE IF n < 0
    THEN [status |-> 400, detail |-> "Invalid base64 encoding"]
  ELSE IF n > MaxBytes
    THEN [status |-> 413, detail |-> "Audio file too large (max 25MB)"]
  ELSE [status |-> 0, detail |-> ""]

\* a slip: ">=" for ">" in the upper size check
DetectCheckExclusive(i) ==
  LET n == B64Decode(i.d, i.p) IN
  IF ~validate_api_key(i.key)
    THEN [status |-> 401, detail |-> "Invalid or missing API key"]
  ELSE IF ~validate_language(i.language)
    THEN [status |-> 400, detail |-> "Unsupported language"]
  ELSE IF i.d + i.p = 0
    THEN [status |-> 400, detail |-> "audio_base64 cannot be empty"]
  ELSE IF n < 0
    THEN [status |-> 400, detail |-> "Invalid base64 encoding"]
  ELSE IF n >= MaxBytes
    THEN [status |-> 413, detail |-> "Audio file too large (max 25MB)"]
  ELSE IF n < MinBytes
    THEN [status |-> 400, detail |-> "Audio file too small"]
  ELSE [status |-> 0, detail |-> ""]

\* a slip: the audio is decoded and measured before the language is checked
DetectCheckAudioFirst(i) ==
  LET n == B64Decode(i.d, i.p) IN
  IF ~validate_api_key(i.key)
    THEN [status |-> 401, detail |-> "Invalid or missing API key"]
  ELSE IF i.d + i.p = 0
    THEN [status |-> 400, detail |-> "audio_base64 cannot be empty"]
  ELSE IF n < 0
    THEN [status |-> 400, detail |-> "Invalid base64 encoding"]
  ELSE IF n > MaxBytes
    THEN [status |-> 413, detail |-> "Audio file too large (max 25MB)"]
  ELSE IF n < MinBytes
    THEN [status |-> 400, detail |-> "Audio file too small"]
  ELSE IF ~validate_language(i.language)
    THEN [status |-> 400, detail |-> "Unsupported language"]
  ELSE [status |-> 0, detail |-> ""]

\* the HTTPException the checks raise for request i, status 0 if none
DetectCheck(i) ==
  LET n == B64Decode(i.d, i.p) IN
  IF ~validate_api_key(i.key)
    THEN [status |-> 401, detail |-> "Invalid or missing API key"]
  ELSE IF ~validate_language(i.language)
    THEN [status |-> 400, detail |-> "Unsupported language"]
  ELSE IF i.d + i.p = 0
    THEN [status |-> 400, detail |-> "audio_base64 cannot be empty"]
  ELSE IF n < 0
    THEN [status |-> 400, detail |-> "Invalid base64 encoding"]
  ELSE IF n > MaxBytes
    THEN [status |-> 413, detail |-> "Audio file too large (max 25MB)"]
  ELSE IF n < MinBytes
    THEN [status |-> 400, detail |-> "Audio file too small"]
  ELSE [status |-> 0, detail |-> ""]

detect(r, i) ==
  /\ CanStart(r, i)
  /\ i.endpoint = "detect"
  /\ \A q \in InFlight : req[q].endpoint # "detect"
  /\ req' = [req EXCEPT ![r] = i]
  /\ IF DetectCheck(i).status = 0
       THEN Stage(r, i, B64Decode(i.d, i.p), <<"RECEIVED", "SIZE_VALIDATED">>)
       ELSE Reject(r, DetectCheck(i))
  /\ UNCHANGED <<modelFile, scalerFile, fitCount, history>>

(***************************************************************************)
(* /predict: the verify_api_key dependency and the temp file.              *)
(***************************************************************************)
\* Header(...) is required: FastAPI answers 422 when the header is missing
verify_api_key(x_api_key) ==
  IF x_api_key = NoHeader
    THEN [status |-> 422, detail |-> "Field required"]
  ELSE IF x_api_key # API_KEY
    THEN [status |-> 401, detail |-> "Invalid or missing API key"]
  ELSE [status |-> 0, detail |-> ""]

predict_voice_api(r, i) ==
  /\ CanStart(r, i)
  /\ i.endpoint = "predict"
  /\ req' = [req EXCEPT ![r] = i]
  /\ IF verify_api_key(i.key).status = 0
       THEN Stage(r, i, i.nbytes, <<"RECEIVED">>)
       ELSE Reject(r, verify_api_key(i.key))
  /\ UNCHANGED <<modelFile, scalerFile, fitCount, history>>

(***************************************************************************)
(* /supported-languages and /stats: async handlers that check the key and  *)
(* answer from constants.                                                  *)
(***************************************************************************)
\* a GET request with the x-api-key header k
Get(endpoint, k) == [PredictBase EXCEPT !.endpoint = endpoint, !.key = k]

GetInputs ==
  {Get(e, k) : e \in {"supported-languages", "stats"},
               k \in {API_KEY, "wrong_key", NoHeader}}

\* the body {"status": "success", ...} of the two handlers
GetResponse ==
  [status |-> 200, classification |-> NoLabel, confidence |-> NoConf,
   language |-> "", detail |-> "success", cause |-> ""]

\* either handler, from the key check to its return
GetHandler(r, i) ==
  /\ CanStart(r, i)
  /\ \A q \in InFlight : req[q].endpoint # "detect"
  /\ req' = [req EXCEPT ![r] = i]
  /\ pc' = [pc EXCEPT ![r] = "done"]
  /\ resp' = [resp EXCEPT ![r] =
       IF validate_api_key(i.key) THEN GetResponse
       ELSE HTTPError(401, "Invalid API key", "")]
  /\ log' = [log EXCEPT ![r] = <<"RECEIVED">>]
  /\ UNCHANGED <<loc, modelFile, scalerFile, fitCount, tempFiles, history>>

get_supported_languages(r, i) ==
  i.endpoint = "supported-languages" /\ GetHandler(r, i)

get_stats(r, i) == i.endpoint = "stats" /\ GetHandler(r, i)

(***************************************************************************)
(* model.py: the persisted files.                                          *)
(***************************************************************************)
Exists(f) == f.st # "absent"

\* open(path, 'wb'): creates the file or truncates it to nothing
OpenWB(f, r, fit) ==
  [st |-> "partial", fit |-> fit, writers |-> Append(f.writers, r)]

\* what the file holds when r has dumped its pickle and closes it.  Alone,
\* or having truncated the file last, r leaves its complete pickle.  When a
\* later open truncated the file under r, r's remaining writes land behind
\* a hole that only the later writer fills: which of the two the file shows
\* at r's close depends on how far r had written, which the code does not
\* order.  Every bootstrap fit pickles the same bytes (seed 42), so the
\* last writer to close always leaves a complete file.
DumpOutcomes(f, r) ==
  IF f.writers[Len(f.writers)] = r \/ Len(f.writers) = 1
    THEN {"complete"}
    ELSE {"partial", "complete"}

CloseWB(f, r, fit, st) ==
  [st |-> st, fit |-> fit,
   writers |-> SelectSeq(f.writers, LAMBDA q : q # r)]

(***************************************************************************)
(* model.py: predict_voice, step by step.                                  *)
(***************************************************************************)
\* a slip: the bootstrap runs whether or not the files are there
NeedsBootstrapAlways == TRUE

\* a slip: "and" for "or"
NeedsBootstrapBoth == ~Exists(modelFile) /\ ~Exists(scalerFile)

\* the condition of initialize_model.  A file, once created, is never
\* removed, so reading the two os.path.exists at one instant loses nothing.
NeedsBootstrap == ~Exists(modelFile) \/ ~Exists(scalerFile)

\* a slip: predict_voice extracts the features first, and a failed
\* extraction ends the call before initialize_model and load_model
initialize_modelLate(r) ==
  /\ At(r, "initialize")
  /\ IF extract_features(req[r]) = NoFeatures
       THEN /\ Return(r, req[r],
                      [loc[r] EXCEPT !.err = "Feature extraction failed"],
                      Append(log[r], "PREDICT_VOICE"), tempFiles)
            /\ UNCHANGED fitCount
       ELSE IF NeedsBootstrap
       THEN /\ fitCount' = fitCount + 1
            /\ loc' = [loc EXCEPT
                 ![r].train = Shape(create_synthetic_training_data),
                 ![r].fit = Fit(create_synthetic_training_data,
                                "fitted on the synthetic data")]
            /\ pc' = [pc EXCEPT ![r] = "open_model"]
            /\ log' = [log EXCEPT ![r] = @ \o <<"PREDICT_VOICE", "BOOTSTRAP">>]
            /\ UNCHANGED <<resp, tempFiles>>
       ELSE /\ pc' = [pc EXCEPT ![r] = "load_model"]
            /\ log' = [log EXCEPT ![r] = Append(@, "PREDICT_VOICE")]
            /\ UNCHANGED <<fitCount, loc, resp, tempFiles>>
  /\ UNCHANGED <<req, modelFile, scalerFile, history>>

\* predict_voice is entered and calls initialize_model; when a file is
\* missing the synthetic data is drawn and scaler and forest are fitted
\* (all local to the call) before train_model opens MODEL_PATH
initialize_model(r) ==
  /\ At(r, "initialize")
  /\ IF NeedsBootstrap
       THEN /\ fitCount' = fitCount + 1
            /\ loc' = [loc EXCEPT
                 ![r].train = Shape(create_synthetic_training_data),
                 ![r].fit = Fit(create_synthetic_training_data,
                                "fitted on the synthetic data")]
            /\ pc' = [pc EXCEPT ![r] = "open_model"]
            /\ log' = [log EXCEPT ![r] = @ \o <<"PREDICT_VOICE", "BOOTSTRAP">>]
       ELSE /\ pc' = [pc EXCEPT ![r] = "load_model"]
            /\ log' = [log EXCEPT ![r] = Append(@, "PREDICT_VOICE")]
            /\ UNCHANGED <<fitCount, loc>>
  /\ UNCHANGED <<req, resp, modelFile, scalerFile, tempFiles, history>>

\* train_model: with open(MODEL_PATH, 'wb') as f:
train_open_model(r) ==
  /\ At(r, "open_model")
  /\ modelFile' = OpenWB(modelFile, r, loc[r].fit)
  /\ pc' = [pc EXCEPT ![r] = "dump_model"]
  /\ UNCHANGED <<req, loc, resp, log, scalerFile, fitCount, tempFiles, history>>

\* train_model: pickle.dump(model, f), and the file is closed
train_dump_model(r) ==
  /\ At(r, "dump_model")
  /\ \E st \in DumpOutcomes(modelFile, r) :
       modelFile' = CloseWB(modelFile, r, loc[r].fit, st)
  /\ pc' = [pc EXCEPT ![r] = "open_scaler"]
  /\ UNCHANGED <<req, loc, resp, log, scalerFile, fitCount, tempFiles, history>>

\* train_model: with open(SCALER_PATH, 'wb') as f:
train_open_scaler(r) ==
  /\ At(r, "open_scaler")
  /\ scalerFile' = OpenWB(scalerFile, r, loc[r].fit)
  /\ pc' = [pc EXCEPT ![r] = "dump_scaler"]
  /\ UNCHANGED <<req, loc, resp, log, modelFile, fitCount, tempFiles, history>>

\* train_model: pickle.dump(scaler, f), the file is closed, train_model and
\* initialize_model return
train_dump_scaler(r) ==
  /\ At(r, "dump_scaler")
  /\ \E st \in DumpOutcomes(scalerFile, r) :
       scalerFile' = CloseWB(scalerFile, r, loc[r].fit, st)
  /\ pc' = [pc EXCEPT ![r] = "load_model"]
  /\ UNCHANGED <<req, loc, resp, log, modelFile, fitCount, tempFiles, history>>

\* open(path, 'rb') and pickle.load: the error raised, "" when the object
\* is read.  A missing file is FileNotFoundError, which load_model turns
\* into its own message; a file that is not a whole pickle makes
\* pickle.load raise (EOFError, UnpicklingError), which load_model lets
\* through.
LoadError(f) ==
  CASE f.st = "absent"   -> "Model files not found"
    [] f.st = "partial"  -> "pickle.load failed"
    [] OTHER             -> ""

\* load_model: model = pickle.load(f) from MODEL_PATH; an error ends
\* predict_voice and the handler
load_model_file(r) ==
  /\ At(r, "load_model")
  /\ IF LoadError(modelFile) = ""
       THEN /\ loc' = [loc EXCEPT ![r].model = modelFile.fit]
            /\ pc' = [pc EXCEPT ![r] = "load_scaler"]
            /\ UNCHANGED <<resp, log, tempFiles>>
       ELSE Return(r, req[r], [loc[r] EXCEPT !.err = LoadError(modelFile)],
                   log[r], tempFiles)
  /\ UNCHANGED <<req, modelFile, scalerFile, fitCount, history>>

\* load_model: scaler = pickle.load(f) from SCALER_PATH
load_scaler_file(r) ==
  /\ At(r, "load_scaler")
  /\ IF LoadError(scalerFile) = ""
       THEN /\ loc' = [loc EXCEPT ![r].scaler = scalerFile.fit]
            /\ pc' = [pc EXCEPT ![r] = "extract"]
            /\ log' = [log EXCEPT ![r] = Append(@, "LOADED")]
            /\ UNCHANGED <<resp, tempFiles>>
       ELSE Return(r, req[r], [loc[r] EXCEPT !.err = LoadError(scalerFile)],
                   log[r], tempFiles)
  /\ UNCHANGED <<req, modelFile, scalerFile, fitCount, history>>

\* predict_voice from extract_features on, and the handler after it
predict_voice(r) ==
  /\ At(r, "extract")
  /\ LET c == Classify(req[r], loc[r].model, loc[r].scaler) IN
       Return(r, req[r],
              [loc[r] EXCEPT !.features = c.features, !.label = c.label,
                             !.confidence = c.confidence, !.err = c.err],
              log[r] \o c.stages, tempFiles)
  /\ UNCHANGED <<req, modelFile, scalerFile, fitCount, history>>

(***************************************************************************)
(* The specification.                                                      *)
(***************************************************************************)
\* the response reaches the client; the server keeps nothing of the request
Deliver(r) ==
  /\ pc[r] = "done"
  /\ pc' = [pc EXCEPT ![r] = "idle"]
  /\ req' = [req EXCEPT ![r] = NoReq]
  /\ loc' = [loc EXCEPT ![r] = NoLoc]
  /\ resp' = [resp EXCEPT ![r] = NoResp]
  /\ log' = [log EXCEPT ![r] = <<>>]
  /\ UNCHANGED <<modelFile, scalerFile, fitCount, tempFiles>>

deliver(r) == Deliver(r) /\ UNCHANGED history

Next ==
  \/ \E r \in Reqs, i \in Inputs : detect(r, i)
  \/ \E r \in Reqs, i \in Inputs : predict_voice_api(r, i)
  \/ \E r \in Reqs : initialize_model(r)
  \/ \E r \in Reqs : train_open_model(r)
  \/ \E r \in Reqs : train_dump_model(r)
  \/ \E r \in Reqs : train_open_scaler(r)
  \/ \E r \in Reqs : train_dump_scaler(r)
  \/ \E r \in Reqs : load_model_file(r)
  \/ \E r \in Reqs : load_scaler_file(r)
  \/ \E r \in Reqs : predict_voice(r)
  \/ \E r \in Reqs : deliver(r)

Spec == Init /\ [][Next]_vars

\* the server restarted on whatever files it finds
SpecRestart == InitRestart /\ [][Next]_vars

\* the server restarted on files fitted on rows of another width
SpecMismatch == InitMismatch /\ [][Next]_vars

(***************************************************************************)
(* All four protected endpoints, with requests that fail one check of      *)
(* /detect or several.                                                     *)
(***************************************************************************)
\* /detect requests that fail more than one check
DetectPairs ==
  {[DetectBase EXCEPT !.key = "wrong_key", !.language = "klingon"],
   [DetectBase EXCEPT !.key = "wrong_key", !.d = 0, !.p = 0],
   [DetectBase EXCEPT !.language = "klingon", !.d = 0, !.p = 0],
   [DetectBase EXCEPT !.language = "klingon", !.d = 1366, !.p = 0],
   [DetectBase EXCEPT !.language = "klingon", !.d = 667, !.p = 1],
   [DetectBase EXCEPT !.language = "klingon", !.d = 36350635, !.p = 1],
   [DetectBase EXCEPT !.language = "klingon", !.kind = "corrupt"],
   [DetectBase EXCEPT !.d = 667, !.p = 1, !.kind = "corrupt"],
   [DetectBase EXCEPT !.d = 36350635, !.p = 1, !.kind = "corrupt"]}

ApiInputs ==
  {DetectBase, PredictBase}
    \cup {[DetectBase EXCEPT !.key = k] : k \in {"wrong_key", NoHeader, ""}}
    \cup {[DetectBase EXCEPT !.language = l] : l \in {"Hindi", "klingon"}}
    \cup {[DetectBase EXCEPT !.d = x[1], !.p = x[2]] : x \in B64Shapes}
    \cup {[DetectBase EXCEPT !.kind = "corrupt"]}
    \cup DetectPairs
    \cup {[PredictBase EXCEPT !.key = k] : k \in {"wrong_key", NoHeader, ""}}
    \cup GetInputs

NextApi ==
  \/ \E r \in Reqs, i \in ApiInputs : detect(r, i)
  \/ \E r \in Reqs, i \in ApiInputs : predict_voice_api(r, i)
  \/ \E r \in Reqs, i \in ApiInputs : get_supported_languages(r, i)
  \/ \E r \in Reqs, i \in ApiInputs : get_stats(r, i)
  \/ \E r \in Reqs : initialize_model(r)
  \/ \E r \in Reqs : train_open_model(r)
  \/ \E r \in Reqs : train_dump_model(r)
  \/ \E r \in Reqs : train_open_scaler(r)
  \/ \E r \in Reqs : train_dump_scaler(r)
  \/ \E r \in Reqs : load_model_file(r)
  \/ \E r \in Reqs : load_scaler_file(r)
  \/ \E r \in Reqs : predict_voice(r)
  \/ \E r \in Reqs : deliver(r)

SpecApi == Init /\ [][NextApi]_vars

(***************************************************************************)
(* train_model may fail once it has opened MODEL_PATH: pickle.dump or the  *)
(* open of SCALER_PATH raises (a full disk, no memory).  The with block    *)
(* closes the file as far as it was written, and the exception ends        *)
(* initialize_model, predict_voice and the handler.                        *)
(***************************************************************************)
train_model_fails(r) ==
  /\ Delivered
  /\ fitCount <= MaxFits
  /\ pc[r] \in {"dump_model", "open_scaler", "dump_scaler"}
  /\ modelFile' =
       IF pc[r] = "dump_model"
         THEN CloseWB(modelFile, r, modelFile.fit, "partial")
         ELSE modelFile
  /\ scalerFile' =
       IF pc[r] = "dump_scaler"
         THEN CloseWB(scalerFile, r, scalerFile.fit, "partial")
         ELSE scalerFile
  /\ Return(r, req[r], [loc[r] EXCEPT !.err = "train_model failed"],
            log[r], tempFiles)
  /\ UNCHANGED <<req, fitCount, history>>

NextFault ==
  \/ \E r \in Reqs, i \in Inputs : detect(r, i)
  \/ \E r \in Reqs, i \in Inputs : predict_voice_api(r, i)
  \/ \E r \in Reqs : initialize_model(r)
  \/ \E r \in Reqs : train_open_model(r)
  \/ \E r \in Reqs : train_dump_model(r)
  \/ \E r \in Reqs : train_open_scaler(r)
  \/ \E r \in Reqs : train_dump_scaler(r)
  \/ \E r \in Reqs : train_model_fails(r)
  \/ \E r \in Reqs : load_model_file(r)
  \/ \E r \in Reqs : load_scaler_file(r)
  \/ \E r \in Reqs : predict_voice(r)
  \/ \E r \in Reqs : deliver(r)

SpecFault == Init /\ [][NextFault]_vars

(***************************************************************************)
(* Clients that compare answers.  The client keeps the last successful     *)
(* answer it received, with the request it belongs to and what             *)
(* predict_voice had loaded and returned for it, and sends the same audio  *)
(* again: under another language, on the other endpoint, or beside other   *)
(* requests.                                                               *)
(***************************************************************************)
HistInputs ==
  {DetectBase, [DetectBase EXCEPT !.language = "Hindi"],
   [DetectBase EXCEPT !.kind = "corrupt"], PredictBase}

deliver_remembered(r) ==
  /\ Deliver(r)
  /\ history' =
       IF resp[r].status = 200
         THEN [req |-> req[r], loc |-> loc[r], resp |-> resp[r]]
         ELSE history

NextHist ==
  \/ \E r \in Reqs, i \in HistInputs : detect(r, i)
  \/ \E r \in Reqs, i \in HistInputs : predict_voice_api(r, i)
  \/ \E r \in Reqs : initialize_model(r)
  \/ \E r \in Reqs : train_open_model(r)
  \/ \E r \in Reqs : train_dump_model(r)
  \/ \E r \in Reqs : train_open_scaler(r)
  \/ \E r \in Reqs : train_dump_scaler(r)
  \/ \E r \in Reqs : load_model_file(r)
  \/ \E r \in Reqs : load_scaler_file(r)
  \/ \E r \in Reqs : predict_voice(r)
  \/ \E r \in Reqs : deliver_remembered(r)

SpecHist == Init /\ [][NextHist]_vars

(***************************************************************************)
(* Properties.                                                             *)
(***************************************************************************)
Range(seq) == {seq[k] : k \in DOMAIN seq}

IsPrefix(a, b) == Len(a) <= Len(b) /\ a = SubSeq(b, 1, Len(a))

Labels == {"HUMAN", "AI_GENERATED"}

Arrived(r) == req[r] # NoReq

IsDetect(r) == Arrived(r) /\ req[r].endpoint = "detect"

\* the length of the audio a request carries, -1 when it does not decode
AudioLen(i) ==
  IF i.endpoint = "detect" THEN B64Decode(i.d, i.p) ELSE i.nbytes

Succeeded(r) == pc[r] = "done" /\ resp[r].status = 200

\* C1: a /detect request whose decoded audio is shorter than 1024 bytes or
\* longer than 25 MiB ends in an error, and for it no temp file is written
\* and predict_voice is not invoked
C1_OutOfBoundsRejected ==
  \A r \in Reqs :
    (IsDetect(r) /\ AudioLen(req[r]) >= 0
       /\ (AudioLen(req[r]) < 1024 \/ AudioLen(req[r]) > 25 * 1024 * 1024))
    => /\ pc[r] = "done"
       /\ resp[r].status \notin {0, 200}
       /\ resp[r].classification = NoLabel
       /\ "TEMP_WRITTEN" \notin Range(log[r])
       /\ "PREDICT_VOICE" \notin Range(log[r])
       /\ loc[r].file_path = 0
       /\ Uuid4(r) \notin tempFiles

\* a 500-byte audio with a valid key and language was answered "too small"
C1_Witness ==
  \E r \in Reqs :
    /\ IsDetect(r) /\ AudioLen(req[r]) = 500
    /\ pc[r] = "done" /\ resp[r].detail = "Audio file too small"

\* C2: whoever calls predict_voice, extract_features never runs on audio of
\* fewer than 1 KiB or more than 25 MiB
C2_CoreEnforcesSize ==
  \A r \in Reqs :
    "FEATURES_EXTRACTED" \in Range(log[r])
    => (loc[r].nbytes >= MinBytes /\ loc[r].nbytes <= MaxBytes)

\* C3: however the prediction calls interleave, the synthetic bootstrap fit
\* is executed once in total
C3_BootstrapOnce == fitCount <= 1

\* C4: no load_model reads a model or scaler file that is partially written
C4_NoTornRead ==
  \A r \in Reqs : loc[r].err # "pickle.load failed"

\* a call with a valid key, a supported language and decodable audio within
\* the size bounds
ValidCall(i) ==
  /\ i.key = API_KEY
  /\ i.kind = "ok"
  /\ AudioLen(i) >= MinBytes /\ AudioLen(i) <= MaxBytes
  /\ i.endpoint = "detect" => Lower(i.language) \in SUPPORTED_LANGUAGES

\* C5: every prediction call with decodable audio within the bounds ends
\* with a valid result, whatever bootstrap runs beside it (the temp file
\* permitting)
C5_ValidCallsSucceed ==
  \A r \in Reqs :
    (pc[r] = "done" /\ ValidCall(req[r]) /\ loc[r].err # "write")
    => /\ resp[r].status = 200
       /\ resp[r].classification \in Labels
       /\ resp[r].confidence # NoConf

\* both files are persisted and no call is inside train_model or about to
\* enter it
Bootstrapped ==
  /\ modelFile.st = "complete" /\ modelFile.writers = <<>>
  /\ scalerFile.st = "complete" /\ scalerFile.writers = <<>>
  /\ \A r \in Reqs :
       pc[r] \notin {"open_model", "dump_model", "open_scaler", "dump_scaler"}

\* C6: once a bootstrap has completed and both files exist, no later
\* initialize_model or predict_voice call trains, and both files stay as
\* they are
C6_BootstrapIdempotent ==
  [][Bootstrapped =>
       /\ Bootstrapped'
       /\ fitCount' = fitCount
       /\ modelFile' = modelFile
       /\ scalerFile' = scalerFile]_vars

\* after the one bootstrap of a fresh deployment a later call went through
\* predict_voice without bootstrapping
C6_Witness ==
  /\ Bootstrapped /\ fitCount = 1
  /\ \E r \in Reqs :
       /\ Succeeded(r)
       /\ "BOOTSTRAP" \notin Range(log[r])
       /\ loc[r].model = SyntheticFit /\ loc[r].scaler = SyntheticFit

\* C7: a response carries a label and a confidence only when predict_voice
\* ran to completion for that request; every error response carries neither
C7_NoFabricatedResult ==
  \A r \in Reqs :
    pc[r] = "done" =>
      /\ resp[r].status # 0
      /\ IF resp[r].status = 200
           THEN /\ "CLASSIFIED" \in Range(log[r])
                /\ loc[r].err = ""
                /\ loc[r].label \in Labels
                /\ resp[r].classification = loc[r].label
                /\ resp[r].confidence # NoConf
           ELSE /\ resp[r].classification = NoLabel
                /\ resp[r].confidence = NoConf

\* a /detect request whose audio does not decode was answered 422
C7_Witness ==
  \E r \in Reqs :
    /\ IsDetect(r) /\ pc[r] = "done" /\ resp[r].status = 422
    /\ resp[r].cause = "Feature extraction failed"

\* C8: on a successful prediction the two class probabilities sum to 1, the
\* confidence is the larger one and lies in [0.5, 1], and the label is
\* HUMAN or AI_GENERATED
C8_ConfidenceRange ==
  \A r \in Reqs :
    Succeeded(r) =>
      LET pr == predict_proba(loc[r].features) IN
        /\ pr[1] + pr[2] = ProbUnit
        /\ loc[r].confidence >= pr[1] /\ loc[r].confidence >= pr[2]
        /\ loc[r].confidence \in {pr[1], pr[2]}
        /\ 2 * loc[r].confidence >= ProbUnit /\ loc[r].confidence <= ProbUnit
        /\ 2 * resp[r].confidence >= ProbUnit /\ resp[r].confidence <= ProbUnit
        /\ resp[r].classification \in Labels

\* a prediction with equal probabilities came back with confidence 0.5
C8_Witness ==
  \E r \in Reqs :
    Succeeded(r) /\ req[r].score * 2 = ProbUnit
      /\ resp[r].confidence * 2 = ProbUnit

\* C9: the label is AI_GENERATED exactly when class 1 has the larger
\* probability and HUMAN otherwise, and the confidence is the probability
\* of the class of the returned label, equal probabilities included
C9_LabelIsArgmax ==
  \A r \in Reqs :
    Succeeded(r) =>
      LET pr == predict_proba(loc[r].features) IN
        /\ loc[r].label = "AI_GENERATED" <=> pr[2] > pr[1]
        /\ loc[r].label = "HUMAN" <=> pr[2] <= pr[1]
        /\ loc[r].confidence =
             IF loc[r].label = "AI_GENERATED" THEN pr[2] ELSE pr[1]

\* a prediction with class 1 ahead came back AI_GENERATED with its share
C9_Witness ==
  \E r \in Reqs :
    Succeeded(r) /\ req[r].score = 8766
      /\ loc[r].label = "AI_GENERATED" /\ loc[r].confidence = 8766

StageOrder ==
  <<"RECEIVED", "SIZE_VALIDATED", "FEATURES_EXTRACTED", "NORMALIZED",
    "CLASSIFIED", "RESULT_BUILT">>

StagesOf(r) == SelectSeq(log[r], LAMBDA e : e \in Range(StageOrder))

NotReadyErrors == {"Model files not found", "pickle.load failed"}

Count(seq, e) == Cardinality({k \in DOMAIN seq : seq[k] = e})

\* C11: a request whose classification fails because the persisted model is
\* not ready has run the bootstrap once and tried again after it, so the
\* failure it reports is the one of the retry; no request bootstraps or
\* enters predict_voice more than once
C11_BootstrapThenRetryOnce ==
  \A r \in Reqs :
    /\ Count(log[r], "BOOTSTRAP") <= 1
    /\ Count(log[r], "PREDICT_VOICE") <= 1
    /\ (pc[r] = "done" /\ loc[r].err \in NotReadyErrors)
         => Count(log[r], "BOOTSTRAP") = 1

SupportedFormats == {"mp3", "wav", "ogg", "flac"}

\* C13: a /detect request whose declared format is not mp3, wav, ogg or
\* flac ends in an error, with no temp file written and no feature
\* extraction attempted
C13_FormatAllowListed ==
  \A r \in Reqs :
    (IsDetect(r) /\ req[r].audio_format \notin SupportedFormats)
    => /\ pc[r] = "done"
       /\ resp[r].status \notin {0, 200}
       /\ "TEMP_WRITTEN" \notin Range(log[r])
       /\ "FEATURES_EXTRACTED" \notin Range(log[r])

\* the audio of a request: its bytes are told apart by their number, by
\* whether librosa decodes them and by the votes they get
AudioOf(i) == [len |-> AudioLen(i), kind |-> i.kind, score |-> i.score]

\* request r has loaded the model and the scaler the remembered one had
SameModel(r) ==
  history.loc.model = loc[r].model /\ history.loc.scaler = loc[r].scaler

\* request r is a successful /detect with the audio and format of the
\* remembered /detect, run against the same persisted model
SameAudioDetect(r) ==
  /\ Succeeded(r) /\ IsDetect(r)
  /\ history.req.endpoint = "detect"
  /\ AudioOf(history.req) = AudioOf(req[r])
  /\ history.req.audio_format = req[r].audio_format
  /\ SameModel(r)

\* C14: two /detect requests with the same audio and format, each with a
\* supported language and run against the same persisted model, get the
\* same classification and confidence; their answers differ in the echoed
\* language at most
C14_LanguageBlind ==
  \A r \in Reqs :
    SameAudioDetect(r) =>
      /\ loc[r].label = history.loc.label
      /\ loc[r].confidence = history.loc.confidence
      /\ [resp[r] EXCEPT !.language = ""] = [history.resp EXCEPT !.language = ""]

\* the audio answered under "english" was sent again under "Hindi" and got
\* the same classification, with the language echoed as "hindi"
C14_Witness ==
  \E r \in Reqs :
    /\ SameAudioDetect(r)
    /\ history.req.language = "english" /\ req[r].language = "Hindi"
    /\ resp[r].language = "hindi" /\ history.resp.language = "english"
    /\ resp[r].classification = history.resp.classification

\* a failure of scaler.transform or of the forest's predict
ClassificationErrors == {"transform failed", "predict failed"}

\* what the handler of request i answers when extract_features fails
ExtractionFailure(i) ==
  LET l == [NoLoc EXCEPT !.err = "Feature extraction failed"] IN
  IF i.endpoint = "detect" THEN DetectOutcome(i, l) ELSE PredictOutcome(i, l)

\* C15: a failure of scaling or prediction ends the request without a
\* label, as an internal error (500), told apart by status or message kind
\* from a failed feature extraction and from invalid input (400, 413)
C15_ClassificationErrorDistinct ==
  \A r \in Reqs :
    (pc[r] = "done" /\ loc[r].err \in ClassificationErrors) =>
      /\ resp[r].classification = NoLabel
      /\ resp[r].confidence = NoConf
      /\ resp[r].status = 500
      /\ resp[r].status \notin {400, 413}
      /\ <<resp[r].status, resp[r].detail>> #
           <<ExtractionFailure(req[r]).status, ExtractionFailure(req[r]).detail>>

\* C16: extract_features returns 48 values, 20 MFCC means, 20 MFCC standard
\* deviations, then centroid mean and std, rolloff mean and std, bandwidth
\* mean, zero-crossing mean and std, chroma mean; or it fails with the
\* cause in its error and no vector at all
C16_FeatureVector ==
  \A r \in Reqs :
    /\ loc[r].features # NoFeatures =>
         /\ loc[r].features.len = 48
         /\ Len(loc[r].features.layout) = 48
         /\ \A k \in 1..20 : loc[r].features.layout[k] = "mfcc_mean"
         /\ \A k \in 21..40 : loc[r].features.layout[k] = "mfcc_std"
         /\ SubSeq(loc[r].features.layout, 41, 48) =
              <<"spec_centroid_mean", "spec_centroid_std",
                "spec_rolloff_mean", "spec_rolloff_std",
                "spec_bandwidth_mean", "zero_crossing_rate_mean",
                "zero_crossing_rate_std", "chroma_mean">>
    /\ (pc[r] = "done" /\ "LOADED" \in Range(log[r])) =>
         IF req[r].kind = "ok"
           THEN /\ loc[r].features # NoFeatures
                /\ "FEATURES_EXTRACTED" \in Range(log[r])
           ELSE /\ loc[r].features = NoFeatures
                /\ "FEATURES_EXTRACTED" \notin Range(log[r])
                /\ loc[r].err = "Feature extraction failed"
                /\ resp[r].cause = "Feature extraction failed"

\* one request ended with a vector whose last value is the chroma mean
\* while the other, with audio librosa cannot decode, ended with none
C16_Witness ==
  \E r \in Reqs :
    /\ pc[r] = "done" /\ "FEATURES_EXTRACTED" \in Range(log[r])
    /\ req[r].kind = "ok"
    /\ loc[r].features.layout[48] = "chroma_mean"
    /\ loc[r].features.layout[40] = "mfcc_std"

\* request r returned a result for the audio of the remembered request
SameAudio(r) ==
  /\ Succeeded(r)
  /\ history.req.endpoint # "none"
  /\ AudioOf(history.req) = AudioOf(req[r])
  /\ SameModel(r)

C18_PairFromOneFit ==
  \A r \in Reqs :
    (loc[r].model # NoFit /\ loc[r].scaler # NoFit)
      => loc[r].model = loc[r].scaler

\* C19: initialize_model trains exactly when the model file or the scaler
\* file is missing; when it returns from training both files exist and
\* hold its fit; when both are there it leaves them and trains nothing
C19_BootstrapIffMissing ==
  [][\A r \in Reqs :
       /\ (pc[r] = "initialize" /\ pc'[r] # "initialize") =>
            IF ~Exists(modelFile) \/ ~Exists(scalerFile)
              THEN /\ pc'[r] = "open_model"
                   /\ fitCount' = fitCount + 1
                   /\ loc'[r].fit = SyntheticFit
              ELSE /\ pc'[r] = "load_model"
                   /\ fitCount' = fitCount
                   /\ modelFile' = modelFile /\ scalerFile' = scalerFile
       /\ (pc[r] = "dump_scaler" /\ pc'[r] # "dump_scaler") =>
            /\ Exists(modelFile') /\ Exists(scalerFile')
            /\ modelFile'.fit = loc[r].fit /\ scalerFile'.fit = loc[r].fit
    ]_vars

\* the model file was missing and the scaler of the earlier run was there:
\* a call has trained, written the model and is about to replace the scaler
C19_Witness ==
  \E r \in Reqs :
    /\ pc[r] = "open_scaler" /\ "BOOTSTRAP" \in Range(log[r])
    /\ scalerFile = PersistedFile
    /\ modelFile.st = "complete" /\ modelFile.fit = SyntheticFit

\* C20: the synthetic data has 100 rows of 48 features, 50 labelled 1 and
\* 50 labelled 0, and what is fitted on it has the dimension of the
\* vectors of extract_features
C20_SyntheticDataShape ==
  \A r \in Reqs :
    loc[r].train # NoTrain =>
      /\ loc[r].train.rows = 100
      /\ loc[r].train.widths = {48}
      /\ loc[r].train.ones = 50 /\ loc[r].train.zeros = 50
      /\ loc[r].fit.n_features_in = 48
      /\ loc[r].fit.n_features_in = Len(hstack(FeatureParts))
      /\ (loc[r].features # NoFeatures /\ loc[r].scaler = loc[r].fit) =>
           /\ loc[r].features.len = loc[r].scaler.n_features_in
           /\ loc[r].err = ""

\* a request bootstrapped, loaded its own fit and classified with it
C20_Witness ==
  \E r \in Reqs :
    /\ Succeeded(r) /\ loc[r].train.rows = 100
    /\ loc[r].scaler = loc[r].fit /\ loc[r].model = loc[r].fit
    /\ loc[r].features.len = loc[r].scaler.n_features_in

\* a /detect request with the right key, a supported language and audio
\* that base64 decodes
Decodes(r) ==
  /\ IsDetect(r)
  /\ req[r].key = API_KEY
  /\ Lower(req[r].language) \in SUPPORTED_LANGUAGES
  /\ req[r].d + req[r].p > 0
  /\ AudioLen(req[r]) >= 0

\* C21: /detect passes the size validation for exactly the decoded lengths
\* from 1024 to 25 * 1024 * 1024 bytes, both ends included; a longer audio
\* is answered 413 and a shorter one 400
C21_BoundsInclusive ==
  \A r \in Reqs :
    Decodes(r) =>
      LET L == AudioLen(req[r]) IN
        /\ "SIZE_VALIDATED" \in Range(log[r])
             <=> (1024 <= L /\ L <= 25 * 1024 * 1024)
        /\ L > 25 * 1024 * 1024 => (pc[r] = "done" /\ resp[r].status = 413)
        /\ L < 1024 => (pc[r] = "done" /\ resp[r].status = 400)

\* an audio of exactly 25 MiB passed the size validation
C21_Witness ==
  \E r \in Reqs :
    /\ Decodes(r) /\ AudioLen(req[r]) = 25 * 1024 * 1024
    /\ "SIZE_VALIDATED" \in Range(log[r])

Protected == {"detect", "predict", "supported-languages", "stats"}

\* C22: on /detect, /predict, /supported-languages and /stats a wrong key is
\* answered 401 (with 'Invalid or missing API key' on /detect and /predict)
\* and a /predict without the header 422, with no temp file written and
\* predict_voice not called; the right key gets 200 from /supported-languages
\* and /stats
C22_KeyRequired ==
  \A r \in Reqs :
    (Arrived(r) /\ req[r].endpoint \in Protected) =>
      /\ req[r].key \notin {API_KEY, NoHeader} =>
           /\ pc[r] = "done" /\ resp[r].status = 401
           /\ req[r].endpoint \in {"detect", "predict"}
                => resp[r].detail = "Invalid or missing API key"
      /\ (req[r].key = NoHeader /\ req[r].endpoint = "predict") =>
           (pc[r] = "done" /\ resp[r].status = 422)
      /\ req[r].key # API_KEY =>
           /\ resp[r].status \notin {0, 200}
           /\ "TEMP_WRITTEN" \notin Range(log[r])
           /\ "PREDICT_VOICE" \notin Range(log[r])
           /\ loc[r].file_path = 0 /\ Uuid4(r) \notin tempFiles
      /\ (req[r].key = API_KEY
            /\ req[r].endpoint \in {"supported-languages", "stats"}) =>
           (pc[r] = "done" /\ resp[r].status = 200)

\* /stats was asked with a wrong key and answered 401
C22_Witness ==
  \E r \in Reqs :
    /\ Arrived(r) /\ req[r].endpoint = "stats" /\ req[r].key = "wrong_key"
    /\ pc[r] = "done" /\ resp[r].status = 401

\* the checks of /detect in the order of the claim: <<fails, status, detail>>
CheckList(i) ==
  << <<i.key # API_KEY, 401, "Invalid or missing API key">>,
     <<Lower(i.language) \notin SUPPORTED_LANGUAGES, 400, "Unsupported language">>,
     <<i.d + i.p = 0, 400, "audio_base64 cannot be empty">>,
     <<AudioLen(i) < 0, 400, "Invalid base64 encoding">>,
     <<AudioLen(i) > 25 * 1024 * 1024, 413, "Audio file too large (max 25MB)">>,
     <<AudioLen(i) < 1024, 400, "Audio file too small">>,
     <<i.kind # "ok", 422, "Audio processing failed">> >>

Failing(i) == {k \in DOMAIN CheckList(i) : CheckList(i)[k][1]}

\* the number of the first check request i fails, 0 when it passes all
FirstFailing(i) ==
  IF Failing(i) = {} THEN 0
  ELSE CHOOSE k \in Failing(i) : \A j \in Failing(i) : k <= j

\* C23: /detect reports the first check that fails, in the order key (401),
\* language (400), empty audio (400), base64 (400), too large (413), too
\* small (400), audio processing (422); an unsupported language with a
\* valid key is answered before the audio is looked at
C23_FirstFailureReported ==
  \A r \in Reqs :
    (IsDetect(r) /\ pc[r] = "done") =>
      LET k == FirstFailing(req[r]) IN
        /\ (k \in 1..6) =>
             /\ resp[r].status = CheckList(req[r])[k][2]
             /\ resp[r].detail = CheckList(req[r])[k][3]
             /\ loc[r].file_path = 0
        /\ (k = 7 /\ "LOADED" \in Range(log[r])) =>
             /\ resp[r].status = 422
             /\ resp[r].detail = "Audio processing failed"
             /\ resp[r].cause = "Feature extraction failed"
        /\ k = 0 => resp[r].detail \notin {CheckList(req[r])[j][3] : j \in 1..6}
        /\ (req[r].key = API_KEY
              /\ Lower(req[r].language) \notin SUPPORTED_LANGUAGES) =>
             /\ resp[r].status = 400
             /\ resp[r].detail = "Unsupported language"

\* an unsupported language with audio of 500 bytes was answered
\* "Unsupported language", not "too small"
C23_Witness ==
  \E r \in Reqs :
    /\ IsDetect(r) /\ pc[r] = "done"
    /\ req[r].language = "klingon" /\ AudioLen(req[r]) = 500
    /\ resp[r].status = 400 /\ resp[r].detail = "Unsupported language"

C25_LanguageEchoedUnchanged ==
  \A r \in Reqs :
    (IsDetect(r) /\ Succeeded(r)) => resp[r].language = req[r].language

\* C25 as amended: a successful /detect response echoes the language of the
\* request in lower case, which is one of the supported languages
C25_LanguageEchoedLowercased ==
  \A r \in Reqs :
    (IsDetect(r) /\ Succeeded(r)) =>
      /\ resp[r].language = Lower(req[r].language)
      /\ resp[r].language \in SUPPORTED_LANGUAGES

\* a request that declared "Hindi" was answered with language "hindi"
C25_Witness ==
  \E r \in Reqs :
    /\ IsDetect(r) /\ Succeeded(r)
    /\ req[r].language = "Hindi" /\ resp[r].language = "hindi"

\* C26: in /detect an HTTPException raised inside the try keeps its status
\* (400 for bad base64 and for too small, 413 for too large, 422 for a
\* failed predict_voice); an exception of another kind, such as a failed
\* write of the temp file, becomes 500; and whichever it is, the temp file
\* of the request is gone afterwards
C26_StatusKept ==
  \A r \in Reqs :
    (IsDetect(r) /\ pc[r] = "done" /\ req[r].key = API_KEY
       /\ Lower(req[r].language) \in SUPPORTED_LANGUAGES
       /\ req[r].d + req[r].p > 0) =>
      /\ AudioLen(req[r]) < 0 => resp[r].status = 400
      /\ AudioLen(req[r]) > 25 * 1024 * 1024 => resp[r].status = 413
      /\ AudioLen(req[r]) \in 0..1023 => resp[r].status = 400
      /\ loc[r].err \notin {"", "write"} =>
           /\ resp[r].status = 422
           /\ "PREDICT_VOICE" \in Range(log[r])
      /\ resp[r].status = 500 <=> loc[r].err = "write"
      /\ Uuid4(r) \notin tempFiles

\* the write of the temp file failed after the file was opened: the answer
\* is 500 and the file is removed
C26_Witness ==
  \E r \in Reqs :
    /\ IsDetect(r) /\ pc[r] = "done"
    /\ loc[r].err = "write" /\ resp[r].status = 500
    /\ resp[r].detail = "Internal server error"
    /\ Uuid4(r) \notin tempFiles

\* no call is inside train_model and neither file is open for writing
NoWriteInProgress ==
  /\ modelFile.writers = <<>> /\ scalerFile.writers = <<>>
  /\ \A r \in Reqs :
       pc[r] \notin {"open_model", "dump_model", "open_scaler", "dump_scaler"}

\* C27: whenever both persisted files exist and no write is in progress,
\* load_model succeeds, also after a train_model that failed between the
\* open of the model file and the end of the scaler dump
C27_LoadableWhenReady ==
  (Exists(modelFile) /\ Exists(scalerFile) /\ NoWriteInProgress) =>
    (LoadError(modelFile) = "" /\ LoadError(scalerFile) = "")

\* request r has written its temp file and its handler has not ended
Working(r) == pc[r] \notin {"idle", "done"}

\* C28: every request works on a temp file of its own: the files of two
\* requests in progress differ, the file of a request in progress is there
\* until that request ends, a file appears only under a name no request in
\* progress uses, and a file disappears only when the request that wrote it
\* ends
C28_TempFilesIsolated ==
  /\ [](\A r \in Reqs : Working(r) =>
          /\ loc[r].file_path \in tempFiles
          /\ \A q \in Reqs \ {r} :
               Working(q) => loc[q].file_path # loc[r].file_path)
  /\ [][/\ \A f \in tempFiles \ tempFiles' :
             \E r \in Reqs :
               /\ Working(r) /\ pc'[r] = "done"
               /\ loc[r].file_path = f
        /\ \A f \in tempFiles' \ tempFiles :
             /\ \E r \in Reqs :
                  pc[r] = "idle" /\ pc'[r] \notin {"idle", "done"}
                  /\ loc'[r].file_path = f
             /\ \A q \in Reqs : Working(q) => loc[q].file_path # f
       ]_vars

\* one request has ended and removed its file while the file of another
\* request, still in predict_voice, is in the upload directory
C28_Witness ==
  \E r, q \in Reqs :
    /\ pc[r] = "done" /\ "TEMP_WRITTEN" \in Range(log[r])
    /\ loc[r].file_path \notin tempFiles
    /\ Working(q) /\ loc[q].file_path \in tempFiles
    /\ loc[q].file_path # loc[r].file_path

\* C29: in predict_voice the bootstrap and the load come before the feature
\* extraction: while a call trains or loads it has extracted nothing, a call
\* that ends in a failed extraction has loaded the model before, and a call
\* whose audio does not decode ends without a label and leaves both files
\* on disk, loadable as soon as no bootstrap is writing them
C29_BootstrapBeforeExtraction ==
  \A r \in Reqs :
    /\ (Working(r) /\ pc[r] # "extract") =>
         /\ loc[r].features = NoFeatures
         /\ loc[r].err = ""
    /\ (pc[r] = "done" /\ loc[r].err = "Feature extraction failed") =>
         "LOADED" \in Range(log[r])
    /\ (pc[r] = "done" /\ req[r].kind = "corrupt"
          /\ "PREDICT_VOICE" \in Range(log[r])) =>
         /\ Exists(modelFile) /\ Exists(scalerFile)
         /\ NoWriteInProgress =>
              (LoadError(modelFile) = "" /\ LoadError(scalerFile) = "")
         /\ resp[r].status \notin {0, 200}
         /\ resp[r].classification = NoLabel
         /\ loc[r].label = NoLabel

\* a call found no persisted model, trained, loaded, failed to decode its
\* audio and ended; both files are complete
C29_Witness ==
  \E r \in Reqs :
    /\ pc[r] = "done" /\ req[r].kind = "corrupt"
    /\ "BOOTSTRAP" \in Range(log[r])
    /\ loc[r].err = "Feature extraction failed"
    /\ resp[r].classification = NoLabel
    /\ LoadError(modelFile) = "" /\ LoadError(scalerFile) = ""

====
